---- MODULE Spec2Model ----
(***************************************************************************)
(* Job lifecycle engine of ai-smart-queue: the metadata store (Postgres    *)
(* jobs and insights tables), the dispatch channel (a Redis list), the     *)
(* control service (CreateJob, RetryJob), the worker runtime               *)
(* (ProcessNextJob, handleJobFailure) and the insights service             *)
(* (AnalyzeJobFailure, ApplyInsightFix).                                   *)
(*                                                                         *)
(* Every store access of a handler is one step, so that the handlers       *)
(* interleave exactly where the code lets them: between two statements     *)
(* that talk to Postgres or Redis.                                         *)
(***************************************************************************)
EXTENDS Integers, Sequences, FiniteSets, TLC

(***************************************************************************)
(* Bounds of the model.                                                    *)
(***************************************************************************)
MaxJobs == 1
NumWorkers == 1
MaxCfgAttempts == 4
MaxRetryCalls == 1
MaxFixCalls == 1
MaxAnalyzeCalls == 1
MaxCrashes == 1
NumTasks == 2
NumRetriers == 1
\* CalculateBackoff is called with attempt in -NegAttempts..MaxAttempt
NegAttempts == 9
MaxAttempt == 9
\* jobs submitted where the order of the queue is observed
MaxQueueJobs == 2
\* RetryJob calls where several envelopes of one job are looked for
MaxRepeatCalls == 2

JobIds == 1..(IF MaxQueueJobs > MaxJobs THEN MaxQueueJobs ELSE MaxJobs)
Workers == 1..NumWorkers
Tasks == 1..NumTasks
Retriers == 1..NumRetriers

(***************************************************************************)
(* queue.Status                                                            *)
(***************************************************************************)
StatusPending == "pending"
StatusProcessing == "processing"
StatusCompleted == "completed"
StatusFailed == "failed"
StatusRetrying == "retrying"

\* The payload is a JSON object; a key that is absent maps to Absent.
Absent == "absent"
PayloadKeys == {"to", "timeout"}
Payload0 == [k \in PayloadKeys |-> IF k = "to" THEN "a@b" ELSE Absent]
\* a payload patch that sets no key
EmptyPatch == [k \in PayloadKeys |-> Absent]

\* the error text of a failed execution
ExecError == "execution failed"

\* maxAttempts := 3 in the retry HTTP handler
HandlerMaxAttempts == 3
\* attempts >= 3 in the DLQ queries
DLQAttempts == 3
\* WorkerConfig.BaseBackoffMs (worker.base_backoff_ms), in milliseconds
BaseBackoffMs == 500

VARIABLES
  maxAttempts,   \* WorkerConfig.MaxAttempts of the worker runtime
  remote,        \* cfg.AI.InsightsURL != "": the worker analyses through HTTPClient
  ms,            \* jobs table: job id -> row
  insights,      \* insights table: sequence of rows in insertion order
  dc,            \* Redis list queue:default, head of the sequence is popped next
  wpc, wjob,     \* each worker: position in ProcessNextJob and its *queue.Job
  rpc, rjob,     \* each RetryJob request in flight: position and its *queue.Job
  fpc, fjob,     \* the ApplyInsightFix request in flight: position and its *queue.Job
  tasks,         \* AnalyzeJobFailure calls in flight
  lastRetry,     \* what the last RetryJob call saw and returned
  cpc, cjob,     \* the CreateJob request in flight: position and its *queue.Job
  lastCreate,    \* what the last CreateJob call returned
  metrics,       \* MetricsService counters
  returned,      \* per job: ids of the Insights that AnalyzeJobFailure calls returned
  lastAnalyze,   \* what the last AnalyzeJobFailure call that succeeded returned
  analyzeErrs,   \* the errors AnalyzeJobFailure calls returned, oldest first
  failedExecs,   \* per job: executor invocations that ended in failure
  spawned,       \* per job: analysis goroutines started by handleJobFailure
  calls,         \* requests issued so far, per kind (bounds the environment)
  now,           \* the clock: the last instant of time.Now() or NOW() that a job kept
  jobCap,        \* how many jobs the clients submit at most
  qlog,          \* the envelopes pushed to and popped from the Redis list, in order
  fx,            \* the last call of Insight.ApplySuggestedFix on its own
  bk,            \* the last call of worker.CalculateBackoff: arguments and result
  retryCap,      \* how many RetryJob calls the clients make at most
  wake,          \* each worker: the instant its time.Sleep(backoff) ends
  shutdown       \* the context of the worker runtime is cancelled

vars == <<maxAttempts, remote, ms, insights, dc, wpc, wjob, rpc, rjob, fpc, fjob,
          tasks, lastRetry, cpc, cjob, lastCreate, metrics, returned, lastAnalyze,
          analyzeErrs, failedExecs, spawned, calls, now, jobCap, qlog, fx, bk,
          retryCap, wake, shutdown>>

\* the state of the CreateJob request in flight
cvars == <<cpc, cjob, lastCreate>>

\* what the AnalyzeJobFailure calls returned
avars == <<returned, lastAnalyze, analyzeErrs>>

NoJob ==
  [id |-> 0, status |-> "", attempts |-> 0, payload |-> EmptyPatch,
   error |-> "", scheduledFor |-> 0, updatedAt |-> 0]
\* the AnalysisRequest.Error of a call that has not read its job
NoRequest == "none"

\* req: the Error of the AnalysisRequest the call built from the row of its
\* job, until aiService.Analyze has taken the request; prev, rprev: what the calls that had returned when this call (its HTTP
\* request to the analyzer) began had returned; msErr: a query of the call
\* met a failure of MS
NoTask ==
  [pc |-> "idle", job |-> 0, via |-> "",
   resp |-> [retry |-> FALSE, patch |-> EmptyPatch],
   prev |-> {}, rprev |-> {}, msErr |-> FALSE, req |-> NoRequest]

(***************************************************************************)
(* Domain entity queue.Job                                                 *)
(***************************************************************************)
\* t is what time.Now().UTC() returns in the call, in milliseconds;
\* scheduledFor = 0 is the nil ScheduledFor
NewJob(id, payload, t) ==
  [id |-> id, status |-> StatusPending, attempts |-> 0, payload |-> payload,
   error |-> "", scheduledFor |-> 0, updatedAt |-> t]

\* CanRetry with the comparison off by one
CanRetry_OffByOne(j, max) == j.attempts <= max /\ j.status = StatusFailed

CanRetry(j, max) == j.attempts < max /\ j.status = StatusFailed

MarkAsProcessing(j, t) == [j EXCEPT !.status = StatusProcessing, !.updatedAt = t]

MarkAsCompleted(j, t) == [j EXCEPT !.status = StatusCompleted, !.updatedAt = t]

MarkAsFailed(j, err, t) ==
  [j EXCEPT !.status = StatusFailed, !.error = err, !.attempts = j.attempts + 1,
            !.updatedAt = t]

MarkAsRetrying(j, t) == [j EXCEPT !.status = StatusRetrying, !.updatedAt = t]

Schedule(j, scheduledFor, t) ==
  [j EXCEPT !.scheduledFor = scheduledFor, !.updatedAt = t]

(***************************************************************************)
(* Domain entity insights.Insight; retry is SuggestedFix.MaxRetries > 0    *)
(***************************************************************************)
NewInsight(id, jobID, resp) ==
  [id |-> id, job |-> jobID, retry |-> resp.retry, patch |-> resp.patch]

HasRetryRecommendation(i) == i.retry

\* len(PayloadPatch) > 0
HasPatch(i) == \E k \in PayloadKeys : i.patch[k] # Absent

\* a value of the payload is the JSON text of the value; an integer next to
\* 2^53 that float64 cannot hold, and the float64 nearest to it
BigInt == "9007199254740993"
BigIntFloat == "9007199254740992"

\* json.Unmarshal into map[string]any and json.Marshal of the map, for one
\* value: a number is decoded to float64 and printed from it
Float64RoundTrip(v) == IF v = BigInt THEN BigIntFloat ELSE v

\* the payload itself when the patch is empty; else the payload decoded to a
\* map, every key of the patch set to the patch's value, and the map encoded
ApplySuggestedFix(i, payload) ==
  IF ~HasPatch(i) THEN payload
  ELSE [k \in PayloadKeys |->
          IF i.patch[k] # Absent THEN i.patch[k] ELSE Float64RoundTrip(payload[k])]

\* the payloads and patches ApplySuggestedFix is called with on its own; the
\* values of a patch were decoded from JSON before, so float64 holds them
PayloadValues == {Absent, "a@b", "30", BigInt, BigIntFloat}
PatchValues == {Absent, "x@y", "30"}
Payloads == [PayloadKeys -> PayloadValues]
Patches == [PayloadKeys -> PatchValues]

NoFix == [called |-> FALSE, payload |-> EmptyPatch, patch |-> EmptyPatch,
          out |-> EmptyPatch, again |-> EmptyPatch]

(***************************************************************************)
(* worker.CalculateBackoff.  int has 64 bits on the targets of the build,  *)
(* and the arguments of the model keep baseMs * 2^attempt * 10^6 far below *)
(* 2^63; a time.Duration is counted here in milliseconds.                  *)
(***************************************************************************)
\* 1 << n for 0 <= n
RECURSIVE Shl1(_)
Shl1(n) == IF n = 0 THEN 1 ELSE 2 * Shl1(n - 1)

\* CalculateBackoff growing by baseMs with every attempt
CalculateBackoff_Linear(attempt, baseMs) ==
  LET a == IF attempt < 0 THEN 0 ELSE attempt IN baseMs * (a + 1)

\* time.Duration(baseMs*(1<<attempt)) * time.Millisecond, in milliseconds
CalculateBackoff(attempt, baseMs) ==
  LET a == IF attempt < 0 THEN 0 ELSE attempt IN baseMs * Shl1(a)

\* the arguments CalculateBackoff is called with
BackoffAttempts == (0 - NegAttempts)..MaxAttempt
BackoffBases == {0, 1, 100, 250, 500, 1000}

NoBackoff == [called |-> FALSE, attempt |-> 0, baseMs |-> 0, out |-> 0]

(***************************************************************************)
(* PostgresJobRepository                                                   *)
(***************************************************************************)
\* INSERT INTO jobs
RepoCreate(store, j) == (j.id :> j) @@ store

\* UPDATE jobs SET status, attempts, payload, updated_at, error WHERE id, all
\* from the fields of the job: a missing row is left missing, and no error is
\* reported
RepoUpdate(store, j) ==
  IF j.id \in DOMAIN store THEN [store EXCEPT ![j.id] = j] ELSE store

\* UPDATE jobs SET status = failed, updated_at = NOW() WHERE id; t is NOW()
MoveToDLQ(store, id, t) ==
  IF id \in DOMAIN store
    THEN [store EXCEPT ![id].status = StatusFailed, ![id].updatedAt = t]
    ELSE store

\* the DLQ query with a strict comparison
GetDLQJobs_Strict(store) ==
  {id \in DOMAIN store : store[id].status = StatusFailed /\ store[id].attempts > DLQAttempts}

\* SELECT ... WHERE status = failed AND attempts >= 3
GetDLQJobs(store) ==
  {id \in DOMAIN store : store[id].status = StatusFailed /\ store[id].attempts >= DLQAttempts}

CountDLQJobs(store) == Cardinality(GetDLQJobs(store))

(***************************************************************************)
(* RedisQueueService: LPUSH at one end, BRPOP at the other; the envelope   *)
(* is the JSON of the whole Job, which Dequeue decodes into a fresh Job.   *)
(***************************************************************************)
Enqueue(q, j) == Append(q, j)

\* the log of the list after a push and after a pop of the envelope of j
LogPush(log, j) ==
  [log EXCEPT !.pushed = Append(@, [id |-> j.id, attempts |-> j.attempts])]
LogPop(log, j) ==
  [log EXCEPT !.popped = Append(@, [id |-> j.id, attempts |-> j.attempts])]

\* an envelope of the job is in the list, or in the hands of a worker or of a
\* RetryJob call that is about to push it
HasEnvelope(id) ==
  \/ \E n \in 1..Len(dc) : dc[n].id = id
  \/ \E w \in Workers : wjob[w].id = id
  \/ \E r \in Retriers : rjob[r].id = id
  \/ cjob.id = id

\* the state after construction, with clients that submit at most cap jobs
\* and call RetryJob at most rcap times
InitCaps(cap, rcap) ==
  /\ jobCap = cap
  /\ retryCap = rcap
  /\ wake = [w \in Workers |-> 0]
  /\ shutdown = FALSE
  /\ qlog = [pushed |-> <<>>, popped |-> <<>>]
  /\ maxAttempts \in 1..MaxCfgAttempts
  /\ remote \in BOOLEAN
  /\ ms = <<>>
  /\ insights = <<>>
  /\ dc = <<>>
  /\ wpc = [w \in Workers |-> "idle"]
  /\ wjob = [w \in Workers |-> NoJob]
  /\ rpc = [r \in Retriers |-> "idle"]
  /\ rjob = [r \in Retriers |-> NoJob]
  /\ fpc = "idle"
  /\ fjob = NoJob
  /\ tasks = [t \in Tasks |-> NoTask]
  /\ lastRetry = [seen |-> "", lost |-> FALSE, ok |-> FALSE]
  /\ cpc = "idle"
  /\ cjob = NoJob
  /\ lastCreate = [ret |-> "", id |-> 0]
  /\ metrics = [created |-> 0, retried |-> 0]
  /\ returned = [j \in JobIds |-> {}]
  /\ lastAnalyze = [job |-> 0, id |-> 0, cached |-> FALSE]
  /\ analyzeErrs = <<>>
  /\ failedExecs = [j \in JobIds |-> 0]
  /\ spawned = [j \in JobIds |-> 0]
  /\ calls = [retry |-> 0, fix |-> 0, analyze |-> 0, crash |-> 0]
  /\ now = 0
  /\ fx = NoFix
  /\ bk = NoBackoff

\* the state after construction, with clients that submit at most cap jobs
InitJobs(cap) == InitCaps(cap, MaxRetryCalls)

Init == InitJobs(MaxJobs)

(***************************************************************************)
(* queue.Service.CreateJob: NewJob, jobRepo.Create, queueService.Enqueue,  *)
(* RecordJobCreated.  createOk = FALSE is a failed INSERT, pushOk = FALSE  *)
(* a failed LPUSH.                                                         *)
(***************************************************************************)
\* the queue names and job types a caller sends; workers poll DefaultQueue
DefaultQueue == "default"
QueueNames == {"", DefaultQueue}
JobTypes == {"", "email"}

\* NewJob validating the type before the queue
NewJobError_TypeFirst(queue, jobType) ==
  IF jobType = "" THEN "InvalidType"
  ELSE IF queue = "" THEN "InvalidQueue"
  ELSE ""

\* the error of queue.NewJob, "" when the job is built
NewJobError(queue, jobType) ==
  IF queue = "" THEN "InvalidQueue"
  ELSE IF jobType = "" THEN "InvalidType"
  ELSE ""

\* NewJob and jobRepo.Create
CreateJob(queue, jobType, createOk) ==
  LET id == Cardinality(DOMAIN ms) + 1
      job == NewJob(id, Payload0, now + 1) IN
  /\ cpc = "idle"
  /\ id <= jobCap
  /\ IF NewJobError(queue, jobType) # ""
       THEN /\ lastCreate' = [ret |-> NewJobError(queue, jobType), id |-> 0]
            /\ UNCHANGED <<ms, cpc, cjob>>
       ELSE IF ~createOk
       THEN /\ lastCreate' = [ret |-> "error", id |-> 0]
            /\ UNCHANGED <<ms, cpc, cjob>>
       ELSE /\ ms' = RepoCreate(ms, job)
            /\ cpc' = "push"
            /\ cjob' = job
            /\ UNCHANGED lastCreate
  /\ now' = IF NewJobError(queue, jobType) = "" /\ createOk THEN now + 1 ELSE now
  /\ UNCHANGED <<jobCap, retryCap, wake, shutdown, qlog, bk, fx, maxAttempts,
                 remote, avars, metrics, insights, dc, wpc, wjob, rpc, rjob,
                 fpc, fjob, tasks, lastRetry, failedExecs, spawned, calls>>

\* CreateJob ignoring the error of Enqueue
CreateJobEnqueue_IgnoreError(pushOk) ==
  /\ cpc = "push"
  /\ dc' = IF pushOk THEN Enqueue(dc, cjob) ELSE dc
  /\ qlog' = IF pushOk THEN LogPush(qlog, cjob) ELSE qlog
  /\ metrics' = [metrics EXCEPT !.created = @ + 1]
  /\ lastCreate' = [ret |-> "ok", id |-> cjob.id]
  /\ cpc' = "idle"
  /\ cjob' = NoJob
  /\ UNCHANGED <<jobCap, retryCap, wake, shutdown, bk, fx, now, maxAttempts,
                 remote, avars, ms, insights, wpc, wjob, rpc, rjob, fpc, fjob,
                 tasks, lastRetry, failedExecs, spawned, calls>>

\* CreateJob deleting the row again when Enqueue fails
CreateJobEnqueue_Rollback(pushOk) ==
  /\ cpc = "push"
  /\ IF pushOk
       THEN /\ dc' = Enqueue(dc, cjob)
            /\ qlog' = LogPush(qlog, cjob)
            /\ metrics' = [metrics EXCEPT !.created = @ + 1]
            /\ lastCreate' = [ret |-> "ok", id |-> cjob.id]
            /\ UNCHANGED ms
       ELSE /\ lastCreate' = [ret |-> "error", id |-> cjob.id]
            /\ ms' = [i \in DOMAIN ms \ {cjob.id} |-> ms[i]]
            /\ UNCHANGED <<dc, qlog, metrics>>
  /\ cpc' = "idle"
  /\ cjob' = NoJob
  /\ UNCHANGED <<jobCap, retryCap, wake, shutdown, bk, fx, now, maxAttempts,
                 remote, avars, insights, wpc, wjob, rpc, rjob, fpc, fjob,
                 tasks, lastRetry, failedExecs, spawned, calls>>

\* queueService.Enqueue(job), metrics.RecordJobCreated, return job
CreateJobEnqueue(pushOk) ==
  /\ cpc = "push"
  /\ IF pushOk
       THEN /\ dc' = Enqueue(dc, cjob)
            /\ qlog' = LogPush(qlog, cjob)
            /\ metrics' = [metrics EXCEPT !.created = @ + 1]
            /\ lastCreate' = [ret |-> "ok", id |-> cjob.id]
       ELSE /\ lastCreate' = [ret |-> "error", id |-> cjob.id]
            /\ UNCHANGED <<dc, qlog, metrics>>
  /\ cpc' = "idle"
  /\ cjob' = NoJob
  /\ UNCHANGED <<jobCap, retryCap, wake, shutdown, bk, fx, now, maxAttempts,
                 remote, avars, ms, insights, wpc, wjob, rpc, rjob, fpc, fjob,
                 tasks, lastRetry, failedExecs, spawned, calls>>

(***************************************************************************)
(* worker.Service.ProcessNextJob                                           *)
(***************************************************************************)
\* Dequeue popping at the end LPUSH pushes to
Dequeue_Newest(w) ==
  /\ wpc[w] = "idle"
  /\ ~shutdown
  /\ dc # <<>>
  /\ wjob' = [wjob EXCEPT ![w] = dc[Len(dc)]]
  /\ dc' = SubSeq(dc, 1, Len(dc) - 1)
  /\ qlog' = LogPop(qlog, dc[Len(dc)])
  /\ wpc' = [wpc EXCEPT ![w] = "mark"]
  /\ UNCHANGED <<jobCap, retryCap, wake, shutdown, bk, fx, now, maxAttempts,
                 remote, avars, cvars, metrics, ms, insights, rpc, rjob, fpc,
                 fjob, tasks, lastRetry, failedExecs, spawned, calls>>

\* queueService.Dequeue: BRPOP blocks while the list is empty
Dequeue(w) ==
  /\ wpc[w] = "idle"
  /\ ~shutdown
  /\ dc # <<>>
  /\ wjob' = [wjob EXCEPT ![w] = Head(dc)]
  /\ dc' = Tail(dc)
  /\ qlog' = LogPop(qlog, Head(dc))
  /\ wpc' = [wpc EXCEPT ![w] = "mark"]
  /\ UNCHANGED <<jobCap, retryCap, wake, shutdown, bk, fx, now, maxAttempts,
                 remote, avars, cvars, metrics, ms, insights, rpc, rjob, fpc,
                 fjob, tasks, lastRetry, failedExecs, spawned, calls>>

\* job.MarkAsProcessing(); jobRepo.Update(job)
MarkProcessing(w) ==
  /\ wpc[w] = "mark"
  /\ ~shutdown
  /\ LET j == MarkAsProcessing(wjob[w], now + 1) IN
       /\ wjob' = [wjob EXCEPT ![w] = j]
       /\ ms' = RepoUpdate(ms, j)
  /\ wpc' = [wpc EXCEPT ![w] = "exec"]
  /\ now' = now + 1
  /\ UNCHANGED <<jobCap, retryCap, wake, shutdown, qlog, bk, fx, maxAttempts,
                 remote, avars, cvars, metrics, insights, dc, rpc, rjob, fpc,
                 fjob, tasks, lastRetry, failedExecs, spawned, calls>>

\* lowest free slot for a detached AnalyzeJobFailure call
FreeTask(ts) == CHOOSE t \in Tasks : ts[t].pc = "idle" /\ \A u \in Tasks : ts[u].pc = "idle" => t <= u

HasFreeTask(ts) == \E t \in Tasks : ts[t].pc = "idle"

\* go func() { s.insightsService.AnalyzeJobFailure(context.Background(), job.ID) }()
SpawnAnalysis(ts, id, via) ==
  [ts EXCEPT ![FreeTask(ts)] =
     [NoTask EXCEPT !.pc = "check", !.job = id, !.via = via, !.prev = returned[id]]]

\* the AIService the worker's insights service was built with (worker-runtime main)
WorkerAIService == IF remote THEN "http" ELSE "ollama"

\* what JobExecutor.Execute can return: a result or nil (res), its Success
\* flag, whether its Error is set (resErr), and whether the error value is
\* set (err); a nil result comes with an error
ExecOutcomes ==
  {o \in [res : BOOLEAN, success : BOOLEAN, resErr : BOOLEAN, err : BOOLEAN] :
     ~o.res => (o.err /\ ~o.success /\ ~o.resErr)}

\* if err != nil || !result.Success
ExecFailed(o) == o.err \/ ~o.success

\* result.Error.Error() in the failure branch: result or result.Error is nil
ExecPanics(o) == ExecFailed(o) /\ (~o.res \/ ~o.resErr)

\* executor.Execute returns success: job.MarkAsCompleted()
ExecuteOk(w) ==
  /\ wpc[w] = "exec"
  /\ wjob' = [wjob EXCEPT ![w] = MarkAsCompleted(wjob[w], now + 1)]
  /\ wpc' = [wpc EXCEPT ![w] = "complete"]
  /\ now' = now + 1
  /\ UNCHANGED <<jobCap, retryCap, wake, shutdown, qlog, bk, fx, maxAttempts,
                 remote, avars, cvars, metrics, ms, insights, dc, rpc, rjob,
                 fpc, fjob, tasks, lastRetry, failedExecs, spawned, calls>>

\* the backoff taken from the attempts count before its increment
Backoff_PreIncrement(j) == CalculateBackoff(j.attempts - 1, BaseBackoffMs)

\* backoff := CalculateBackoff(job.Attempts, BaseBackoffMs);
\* retryTime := time.Now().UTC().Add(backoff), t being time.Now()
Backoff(j) == CalculateBackoff(j.attempts, BaseBackoffMs)

RetryTime(j, t) == t + Backoff(j)

\* executor.Execute returns an error or Success = false, with a result whose
\* Error is set: handleJobFailure up to its first store access (MarkAsFailed,
\* the analysis goroutine when Attempts == 1, CanRetry, CalculateBackoff,
\* Schedule, MarkAsRetrying)
ExecuteFail(w) ==
  /\ wpc[w] = "exec"
  /\ LET j == MarkAsFailed(wjob[w], ExecError, now + 1)
         first == j.attempts = 1 IN
       /\ first => HasFreeTask(tasks)
       /\ tasks' = IF first THEN SpawnAnalysis(tasks, j.id, WorkerAIService) ELSE tasks
       /\ spawned' = IF first THEN [spawned EXCEPT ![j.id] = @ + 1] ELSE spawned
       /\ IF CanRetry(j, maxAttempts)
            THEN /\ wjob' = [wjob EXCEPT ![w] = MarkAsRetrying(
                              Schedule(j, RetryTime(j, now + 1), now + 1), now + 1)]
                 /\ wpc' = [wpc EXCEPT ![w] = "retry_update"]
            ELSE /\ wjob' = [wjob EXCEPT ![w] = j]
                 /\ wpc' = [wpc EXCEPT ![w] = "dlq_move"]
  /\ failedExecs' = [failedExecs EXCEPT ![wjob[w].id] = @ + 1]
  /\ now' = now + 1
  /\ UNCHANGED <<jobCap, retryCap, wake, shutdown, qlog, bk, fx, maxAttempts,
                 remote, avars, cvars, metrics, ms, insights, dc, rpc, rjob,
                 fpc, fjob, lastRetry, calls>>

\* executor.Execute returns a failure whose result or result.Error is nil:
\* the log statement of the failure branch dereferences nil, the panic ends
\* the worker process before handleJobFailure, and a new process starts
ExecutePanic(w, o) ==
  /\ wpc[w] = "exec"
  /\ ExecPanics(o)
  /\ wpc' = [wpc EXCEPT ![w] = "idle"]
  /\ wjob' = [wjob EXCEPT ![w] = NoJob]
  /\ failedExecs' = [failedExecs EXCEPT ![wjob[w].id] = @ + 1]
  /\ UNCHANGED <<jobCap, retryCap, wake, shutdown, qlog, bk, fx, now,
                 maxAttempts, remote, avars, cvars, metrics, ms, insights, dc,
                 rpc, rjob, fpc, fjob, tasks, lastRetry, spawned, calls>>

\* jobRepo.Update(job) with status completed, then queueService.Acknowledge,
\* a DEL of a key nothing sets
Complete(w) ==
  /\ wpc[w] = "complete"
  /\ ~shutdown
  /\ ms' = RepoUpdate(ms, wjob[w])
  /\ wpc' = [wpc EXCEPT ![w] = "idle"]
  /\ wjob' = [wjob EXCEPT ![w] = NoJob]
  /\ UNCHANGED <<jobCap, retryCap, wake, shutdown, qlog, bk, fx, now,
                 maxAttempts, remote, avars, cvars, metrics, insights, dc, rpc,
                 rjob, fpc, fjob, tasks, lastRetry, failedExecs, spawned,
                 calls>>

\* the clock when a wait that ends at the instant till returns
Elapsed(t, till) == IF till > t THEN till ELSE t

\* handleJobFailure waiting for the analysis of the job before the Update
RetryUpdate_AfterAnalysis(w) ==
  /\ wpc[w] = "retry_update"
  /\ ~shutdown
  /\ \A t \in Tasks : tasks[t].job # wjob[w].id
  /\ ms' = RepoUpdate(ms, wjob[w])
  /\ wpc' = [wpc EXCEPT ![w] = "sleep"]
  /\ wake' = [wake EXCEPT ![w] = now + Backoff(wjob[w])]
  /\ UNCHANGED <<jobCap, retryCap, shutdown, qlog, bk, fx, now, maxAttempts,
                 remote, avars, cvars, metrics, insights, dc, wjob, rpc, rjob,
                 fpc, fjob, tasks, lastRetry, failedExecs, spawned, calls>>

\* handleJobFailure, retry branch: jobRepo.Update(job)
RetryUpdate(w) ==
  /\ wpc[w] = "retry_update"
  /\ ~shutdown
  /\ ms' = RepoUpdate(ms, wjob[w])
  /\ wpc' = [wpc EXCEPT ![w] = "sleep"]
  /\ wake' = [wake EXCEPT ![w] = now + Backoff(wjob[w])]
  /\ UNCHANGED <<jobCap, retryCap, shutdown, qlog, bk, fx, now, maxAttempts,
                 remote, avars, cvars, metrics, insights, dc, wjob, rpc, rjob,
                 fpc, fjob, tasks, lastRetry, failedExecs, spawned, calls>>

\* the retry branch pushing the envelope at the end BRPOP pops from
ReEnqueue_AtHead(w) ==
  /\ wpc[w] = "sleep"
  /\ ~shutdown
  /\ dc' = <<wjob[w]>> \o dc
  /\ qlog' = LogPush(qlog, wjob[w])
  /\ now' = Elapsed(now, wake[w])
  /\ wake' = [wake EXCEPT ![w] = 0]
  /\ wpc' = [wpc EXCEPT ![w] = "idle"]
  /\ wjob' = [wjob EXCEPT ![w] = NoJob]
  /\ UNCHANGED <<jobCap, retryCap, shutdown, bk, fx, maxAttempts, remote,
                 avars, cvars, metrics, ms, insights, rpc, rjob, fpc, fjob,
                 tasks, lastRetry, failedExecs, spawned, calls>>

\* the retry branch pushing the envelope without waiting for the backoff
ReEnqueue_NoSleep(w) ==
  /\ wpc[w] = "sleep"
  /\ dc' = Enqueue(dc, wjob[w])
  /\ qlog' = LogPush(qlog, wjob[w])
  /\ wake' = [wake EXCEPT ![w] = 0]
  /\ wpc' = [wpc EXCEPT ![w] = "idle"]
  /\ wjob' = [wjob EXCEPT ![w] = NoJob]
  /\ UNCHANGED <<jobCap, retryCap, shutdown, bk, fx, now, maxAttempts, remote,
                 avars, cvars, metrics, ms, insights, rpc, rjob, fpc, fjob,
                 tasks, lastRetry, failedExecs, spawned, calls>>

\* the retry branch returning after the sleep without the re-push
ReEnqueue_NoPush(w) ==
  /\ wpc[w] = "sleep"
  /\ ~shutdown
  /\ now' = Elapsed(now, wake[w])
  /\ wake' = [wake EXCEPT ![w] = 0]
  /\ wpc' = [wpc EXCEPT ![w] = "idle"]
  /\ wjob' = [wjob EXCEPT ![w] = NoJob]
  /\ UNCHANGED <<jobCap, retryCap, shutdown, qlog, bk, fx, maxAttempts, remote,
                 avars, cvars, metrics, ms, insights, dc, rpc, rjob, fpc, fjob,
                 tasks, lastRetry, failedExecs, spawned, calls>>

\* handleJobFailure, retry branch: time.Sleep(backoff) is over,
\* queueService.Enqueue(job)
ReEnqueue(w) ==
  /\ wpc[w] = "sleep"
  /\ ~shutdown
  /\ dc' = Enqueue(dc, wjob[w])
  /\ qlog' = LogPush(qlog, wjob[w])
  /\ now' = Elapsed(now, wake[w])
  /\ wake' = [wake EXCEPT ![w] = 0]
  /\ wpc' = [wpc EXCEPT ![w] = "idle"]
  /\ wjob' = [wjob EXCEPT ![w] = NoJob]
  /\ UNCHANGED <<jobCap, retryCap, shutdown, bk, fx, maxAttempts, remote,
                 avars, cvars, metrics, ms, insights, rpc, rjob, fpc, fjob,
                 tasks, lastRetry, failedExecs, spawned, calls>>

\* handleJobFailure, else branch: jobRepo.MoveToDLQ(job.ID)
DLQMove(w) ==
  /\ wpc[w] = "dlq_move"
  /\ ~shutdown
  /\ ms' = MoveToDLQ(ms, wjob[w].id, now + 1)
  /\ wpc' = [wpc EXCEPT ![w] = "dlq_update"]
  /\ now' = now + 1
  /\ UNCHANGED <<jobCap, retryCap, wake, shutdown, qlog, bk, fx, maxAttempts,
                 remote, avars, cvars, metrics, insights, dc, wjob, rpc, rjob,
                 fpc, fjob, tasks, lastRetry, failedExecs, spawned, calls>>

\* handleJobFailure, last statement: return s.jobRepo.Update(ctx, job)
DLQUpdate(w) ==
  /\ wpc[w] = "dlq_update"
  /\ ~shutdown
  /\ ms' = RepoUpdate(ms, wjob[w])
  /\ wpc' = [wpc EXCEPT ![w] = "idle"]
  /\ wjob' = [wjob EXCEPT ![w] = NoJob]
  /\ UNCHANGED <<jobCap, retryCap, wake, shutdown, qlog, bk, fx, now,
                 maxAttempts, remote, avars, cvars, metrics, insights, dc, rpc,
                 rjob, fpc, fjob, tasks, lastRetry, failedExecs, spawned,
                 calls>>

\* the worker process dies between Dequeue and the Update that marks the
\* job processing; the popped envelope is gone and a new process starts
Crash(w) ==
  /\ wpc[w] = "mark"
  /\ calls.crash < MaxCrashes
  /\ calls' = [calls EXCEPT !.crash = @ + 1]
  /\ wpc' = [wpc EXCEPT ![w] = "idle"]
  /\ wjob' = [wjob EXCEPT ![w] = NoJob]
  /\ UNCHANGED <<jobCap, retryCap, wake, shutdown, qlog, bk, fx, now,
                 maxAttempts, remote, avars, cvars, metrics, ms, insights, dc,
                 rpc, rjob, fpc, fjob, tasks, lastRetry, failedExecs, spawned>>

\* ProcessNextJob or handleJobFailure returns the error of a store call: the
\* job of the worker is dropped and Start logs the error
ReturnError(w) ==
  /\ wpc' = [wpc EXCEPT ![w] = "idle"]
  /\ wjob' = [wjob EXCEPT ![w] = NoJob]
  /\ wake' = [wake EXCEPT ![w] = 0]
  /\ UNCHANGED <<jobCap, retryCap, shutdown, qlog, bk, fx, now, maxAttempts,
                 remote, avars, cvars, metrics, ms, insights, dc, rpc, rjob,
                 fpc, fjob, tasks, lastRetry, failedExecs, spawned, calls>>

\* jobRepo.Update(job) of the processing status fails: return err
MarkProcessingFails(w) == wpc[w] = "mark" /\ ReturnError(w)

\* jobRepo.Update(job) of the completed status fails: return err
CompleteFails(w) == wpc[w] = "complete" /\ ReturnError(w)

\* the retry branch re-pushing the envelope although its Update failed
RetryUpdateFails_StillPushes(w) ==
  /\ wpc[w] = "retry_update"
  /\ dc' = Enqueue(dc, wjob[w])
  /\ qlog' = LogPush(qlog, wjob[w])
  /\ wpc' = [wpc EXCEPT ![w] = "idle"]
  /\ wjob' = [wjob EXCEPT ![w] = NoJob]
  /\ UNCHANGED <<jobCap, retryCap, wake, shutdown, bk, fx, now, maxAttempts,
                 remote, avars, cvars, metrics, ms, insights, rpc, rjob, fpc,
                 fjob, tasks, lastRetry, failedExecs, spawned, calls>>

\* handleJobFailure, retry branch: jobRepo.Update(job) fails: return err,
\* before the sleep and the Enqueue
RetryUpdateFails(w) == wpc[w] = "retry_update" /\ ReturnError(w)

\* handleJobFailure, else branch: jobRepo.MoveToDLQ fails: return err
MoveToDLQFails(w) == wpc[w] = "dlq_move" /\ ReturnError(w)

\* handleJobFailure, last statement: the Update fails and its error is
\* returned
DLQUpdateFails(w) == wpc[w] = "dlq_update" /\ ReturnError(w)

\* a store call of the worker returns an error
WorkerFault(w) ==
  \/ MarkProcessingFails(w)
  \/ CompleteFails(w)
  \/ RetryUpdateFails(w)
  \/ MoveToDLQFails(w)
  \/ DLQUpdateFails(w)

(***************************************************************************)
(* Shutdown of the worker runtime: cancel() of the context that Start and  *)
(* every ProcessNextJob call of the worker carry.  A Postgres or Redis     *)
(* call made with the cancelled context returns the error of the context.  *)
(***************************************************************************)
\* the signal handler of main: cancel()
Shutdown ==
  /\ ~shutdown
  /\ shutdown' = TRUE
  /\ UNCHANGED <<jobCap, retryCap, wake, qlog, bk, fx, now, maxAttempts,
                 remote, avars, cvars, metrics, ms, insights, dc, wpc, wjob,
                 rpc, rjob, fpc, fjob, tasks, lastRetry, failedExecs, spawned,
                 calls>>

\* Start: case <-ctx.Done(): return
Stop(w) ==
  /\ shutdown
  /\ wpc[w] = "idle"
  /\ wpc' = [wpc EXCEPT ![w] = "stopped"]
  /\ UNCHANGED <<jobCap, retryCap, wake, shutdown, qlog, bk, fx, now,
                 maxAttempts, remote, avars, cvars, metrics, ms, insights, dc,
                 wjob, rpc, rjob, fpc, fjob, tasks, lastRetry, failedExecs,
                 spawned, calls>>

\* the Update or MoveToDLQ the worker is about to make carries the cancelled
\* context: the call fails and its error is returned
Cancelled(w) ==
  /\ shutdown
  /\ wpc[w] \in {"mark", "complete", "retry_update", "dlq_move", "dlq_update"}
  /\ ReturnError(w)

\* handleJobFailure, retry branch, the context cancelled meanwhile:
\* time.Sleep(backoff) returns when the backoff has elapsed, and
\* queueService.Enqueue(ctx, job) fails
SleepThenCancelled(w) ==
  /\ shutdown
  /\ wpc[w] = "sleep"
  /\ now' = Elapsed(now, wake[w])
  /\ wake' = [wake EXCEPT ![w] = 0]
  /\ wpc' = [wpc EXCEPT ![w] = "idle"]
  /\ wjob' = [wjob EXCEPT ![w] = NoJob]
  /\ UNCHANGED <<jobCap, retryCap, shutdown, qlog, bk, fx, maxAttempts, remote,
                 avars, cvars, metrics, ms, insights, dc, rpc, rjob, fpc, fjob,
                 tasks, lastRetry, failedExecs, spawned, calls>>

(***************************************************************************)
(* queue.Service.RetryJob, called by QueueHandlers.RetryJob with           *)
(* maxAttempts := 3                                                        *)
(***************************************************************************)
\* RetryJob without the CanRetry check
RetryRead_NoCheck(r, id) ==
  /\ rpc[r] = "idle"
  /\ id \in DOMAIN ms
  /\ calls.retry < retryCap
  /\ calls' = [calls EXCEPT !.retry = @ + 1]
  /\ rjob' = [rjob EXCEPT ![r] = MarkAsRetrying(ms[id], now + 1)]
  /\ rpc' = [rpc EXCEPT ![r] = "update"]
  /\ lastRetry' = [seen |-> ms[id].status, lost |-> ~HasEnvelope(id), ok |-> TRUE]
  /\ now' = now + 1
  /\ UNCHANGED <<jobCap, retryCap, wake, shutdown, qlog, bk, fx, maxAttempts,
                 remote, avars, cvars, metrics, ms, insights, dc, wpc, wjob,
                 fpc, fjob, tasks, failedExecs, spawned>>

\* jobRepo.GetByID, CanRetry: ErrMaxAttemptsReached, or MarkAsRetrying
RetryRead(r, id) ==
  /\ rpc[r] = "idle"
  /\ id \in DOMAIN ms
  /\ calls.retry < retryCap
  /\ calls' = [calls EXCEPT !.retry = @ + 1]
  /\ IF CanRetry(ms[id], HandlerMaxAttempts)
       THEN /\ rjob' = [rjob EXCEPT ![r] = MarkAsRetrying(ms[id], now + 1)]
            /\ rpc' = [rpc EXCEPT ![r] = "update"]
       ELSE UNCHANGED <<rjob, rpc>>
  /\ lastRetry' = [seen |-> ms[id].status, lost |-> ~HasEnvelope(id),
                   ok |-> CanRetry(ms[id], HandlerMaxAttempts)]
  /\ now' = IF CanRetry(ms[id], HandlerMaxAttempts) THEN now + 1 ELSE now
  /\ UNCHANGED <<jobCap, retryCap, wake, shutdown, qlog, bk, fx, maxAttempts,
                 remote, avars, cvars, metrics, ms, insights, dc, wpc, wjob,
                 fpc, fjob, tasks, failedExecs, spawned>>

\* jobRepo.Update(job)
RetryWrite(r) ==
  /\ rpc[r] = "update"
  /\ ms' = RepoUpdate(ms, rjob[r])
  /\ rpc' = [rpc EXCEPT ![r] = "enqueue"]
  /\ UNCHANGED <<jobCap, retryCap, wake, shutdown, qlog, bk, fx, now,
                 maxAttempts, remote, avars, cvars, metrics, insights, dc, wpc,
                 wjob, rjob, fpc, fjob, tasks, lastRetry, failedExecs, spawned,
                 calls>>

\* queueService.Enqueue(job), metrics.RecordJobRetried
RetryEnqueue(r) ==
  /\ rpc[r] = "enqueue"
  /\ dc' = Enqueue(dc, rjob[r])
  /\ qlog' = LogPush(qlog, rjob[r])
  /\ rpc' = [rpc EXCEPT ![r] = "idle"]
  /\ rjob' = [rjob EXCEPT ![r] = NoJob]
  /\ metrics' = [metrics EXCEPT !.retried = @ + 1]
  /\ UNCHANGED <<jobCap, retryCap, wake, shutdown, bk, fx, now, maxAttempts,
                 remote, avars, cvars, ms, insights, wpc, wjob, fpc, fjob,
                 tasks, lastRetry, failedExecs, spawned, calls>>

(***************************************************************************)
(* PostgresInsightRepository                                               *)
(***************************************************************************)
InsightsOf(tbl, jobID) == {n \in 1..Len(tbl) : tbl[n].job = jobID}

HasInsight(tbl, jobID) == InsightsOf(tbl, jobID) # {}

\* SELECT ... WHERE job_id = $1 ORDER BY created_at DESC LIMIT 1: the row
\* inserted last
GetByJobID(tbl, jobID) ==
  tbl[CHOOSE n \in InsightsOf(tbl, jobID) : \A m \in InsightsOf(tbl, jobID) : m <= n]

\* INSERT INTO insights; the id is a fresh uuid
InsightCreate(tbl, jobID, resp) == Append(tbl, NewInsight(Len(tbl) + 1, jobID, resp))

(***************************************************************************)
(* insights.Service.ApplyInsightFix                                        *)
(***************************************************************************)
\* insightRepo.GetByID, jobRepo.GetByID, ApplySuggestedFix, MarkAsRetrying
FixRead(n) ==
  /\ fpc = "idle"
  /\ n \in 1..Len(insights)
  /\ insights[n].job \in DOMAIN ms
  /\ calls.fix < MaxFixCalls
  /\ calls' = [calls EXCEPT !.fix = @ + 1]
  /\ LET i == insights[n]
         j == ms[i.job]
         patched == IF HasPatch(i) THEN [j EXCEPT !.payload = ApplySuggestedFix(i, j.payload)] ELSE j
     IN fjob' = IF HasRetryRecommendation(i) THEN MarkAsRetrying(patched, now + 1) ELSE patched
  /\ fpc' = "update"
  /\ now' = IF HasRetryRecommendation(insights[n]) THEN now + 1 ELSE now
  /\ UNCHANGED <<jobCap, retryCap, wake, shutdown, qlog, bk, fx, maxAttempts,
                 remote, avars, cvars, metrics, ms, insights, dc, wpc, wjob,
                 rpc, rjob, tasks, lastRetry, failedExecs, spawned>>

\* return s.jobRepo.Update(ctx, job)
FixWrite ==
  /\ fpc = "update"
  /\ ms' = RepoUpdate(ms, fjob)
  /\ fpc' = "idle"
  /\ fjob' = NoJob
  /\ UNCHANGED <<jobCap, retryCap, wake, shutdown, qlog, bk, fx, now,
                 maxAttempts, remote, avars, cvars, metrics, insights, dc, wpc,
                 wjob, rpc, rjob, tasks, lastRetry, failedExecs, spawned,
                 calls>>

(***************************************************************************)
(* insights.Service.AnalyzeJobFailure.  via = "ollama": the service calls  *)
(* the model itself (the analyzer, or a worker without insights_url);      *)
(* via = "http": the worker's service calls HTTPClient.Analyze, which      *)
(* POSTs to the analyzer's AnalyzeJob handler, and that handler runs       *)
(* AnalyzeJobFailure of the analyzer on the same tables (r_* positions).   *)
(***************************************************************************)
\* the answers the model can give that NewInsight accepts
Responses == {[retry |-> TRUE, patch |-> EmptyPatch],
              [retry |-> FALSE, patch |-> [k \in PayloadKeys |-> IF k = "timeout" THEN "30" ELSE Absent]]}

\* HTTPClient.Analyze decodes the handler's InsightResponse into an
\* insights.Insight: the key suggested_fix matches no field, so the
\* SuggestedFix of the response is the zero value
DecodeInsightResponse(i) == [retry |-> FALSE, patch |-> EmptyPatch]

\* POST /api/insights/analyze?job_id=: InsightsHandlers.AnalyzeJob
AnalyzeJob(id) ==
  /\ id <= jobCap
  /\ calls.analyze < MaxAnalyzeCalls
  /\ HasFreeTask(tasks)
  /\ calls' = [calls EXCEPT !.analyze = @ + 1]
  /\ tasks' = SpawnAnalysis(tasks, id, "ollama")
  /\ UNCHANGED <<jobCap, retryCap, wake, shutdown, qlog, bk, fx, now,
                 maxAttempts, remote, avars, cvars, metrics, ms, insights, dc,
                 wpc, wjob, rpc, rjob, fpc, fjob, lastRetry, failedExecs,
                 spawned>>

\* insightRepo.GetByJobID: a row is found and returned, nothing else happens
AnalyzeCached(t) ==
  /\ tasks[t].pc = "check"
  /\ HasInsight(insights, tasks[t].job)
  /\ returned' = [returned EXCEPT ![tasks[t].job] =
                                 @ \cup {GetByJobID(insights, tasks[t].job).id}]
  /\ lastAnalyze' = [job |-> tasks[t].job, id |-> GetByJobID(insights, tasks[t].job).id,
                     cached |-> TRUE]
  /\ tasks' = [tasks EXCEPT ![t] = NoTask]
  /\ UNCHANGED <<jobCap, retryCap, wake, shutdown, qlog, bk, fx, now,
                 maxAttempts, remote, cvars, metrics, ms, insights, dc, wpc,
                 wjob, rpc, rjob, fpc, fjob, lastRetry, failedExecs, spawned,
                 calls, analyzeErrs>>

\* AnalyzeJobFailure going on to the analysis whatever GetByJobID found
AnalyzeMiss_NoCache(t) ==
  /\ tasks[t].pc = "check"
  /\ tasks' = [tasks EXCEPT ![t].pc = "getjob"]
  /\ UNCHANGED <<jobCap, retryCap, wake, shutdown, qlog, bk, fx, now,
                 maxAttempts, remote, avars, cvars, metrics, ms, insights, dc,
                 wpc, wjob, rpc, rjob, fpc, fjob, lastRetry, failedExecs,
                 spawned, calls>>

\* insightRepo.GetByJobID finds no row
AnalyzeMiss(t) ==
  /\ tasks[t].pc = "check"
  /\ ~HasInsight(insights, tasks[t].job)
  /\ tasks' = [tasks EXCEPT ![t].pc = "getjob"]
  /\ UNCHANGED <<jobCap, retryCap, wake, shutdown, qlog, bk, fx, now,
                 maxAttempts, remote, avars, cvars, metrics, ms, insights, dc,
                 wpc, wjob, rpc, rjob, fpc, fjob, lastRetry, failedExecs,
                 spawned, calls>>

\* insightRepo.GetByJobID fails because MS does (connection lost, query
\* timeout): err != nil, the call goes on as after a miss
AnalyzeCheckFails(t) ==
  /\ tasks[t].pc = "check"
  /\ tasks' = [tasks EXCEPT ![t].pc = "getjob", ![t].msErr = TRUE]
  /\ UNCHANGED <<jobCap, retryCap, wake, shutdown, qlog, bk, fx, now,
                 maxAttempts, remote, avars, cvars, metrics, ms, insights, dc,
                 wpc, wjob, rpc, rjob, fpc, fjob, lastRetry, failedExecs,
                 spawned, calls>>

\* the errors of AnalyzeJobFailure
ErrJobNotFound == "job not found"
ErrAnalysisFailed == "AI analysis failed"

\* jobRepo.GetByID: the error of a missing job ends the call
AnalyzeGetJob(t) ==
  /\ tasks[t].pc = "getjob"
  /\ IF tasks[t].job \in DOMAIN ms
       THEN /\ tasks' = [tasks EXCEPT
                          ![t].pc = IF tasks[t].via = "http" THEN "r_check" ELSE "call",
                          ![t].req = ms[tasks[t].job].error]
            /\ UNCHANGED analyzeErrs
       ELSE /\ tasks' = [tasks EXCEPT ![t] = NoTask]
            /\ analyzeErrs' = Append(analyzeErrs, [job |-> tasks[t].job, err |-> ErrJobNotFound])
  /\ UNCHANGED <<jobCap, retryCap, wake, shutdown, qlog, bk, fx, now,
                 maxAttempts, remote, returned, lastAnalyze, cvars, metrics,
                 ms, insights, dc, wpc, wjob, rpc, rjob, fpc, fjob, lastRetry,
                 failedExecs, spawned, calls>>

\* aiService.Analyze of OllamaAIService answers; NewInsight accepts the answer
AnalyzeCall(t, resp) ==
  /\ tasks[t].pc = "call"
  /\ tasks' = [tasks EXCEPT ![t].pc = "create", ![t].resp = resp,
                            ![t].req = NoRequest]
  /\ UNCHANGED <<jobCap, retryCap, wake, shutdown, qlog, bk, fx, now,
                 maxAttempts, remote, avars, cvars, metrics, ms, insights, dc,
                 wpc, wjob, rpc, rjob, fpc, fjob, lastRetry, failedExecs,
                 spawned, calls>>

\* AnalyzeJobFailure storing an Insight with an empty diagnosis when the
\* analysis fails
AnalyzeCallFails_StoresEmpty(t) ==
  /\ tasks[t].pc \in {"call", "r_call"}
  /\ tasks' = [tasks EXCEPT ![t] = NoTask]
  /\ insights' = InsightCreate(insights, tasks[t].job, [retry |-> FALSE, patch |-> EmptyPatch])
  /\ analyzeErrs' = Append(analyzeErrs, [job |-> tasks[t].job, err |-> ErrAnalysisFailed])
  /\ UNCHANGED <<jobCap, retryCap, wake, shutdown, qlog, bk, fx, now,
                 maxAttempts, remote, returned, lastAnalyze, cvars, metrics,
                 ms, dc, wpc, wjob, rpc, rjob, fpc, fjob, lastRetry,
                 failedExecs, spawned, calls>>

\* aiService.Analyze fails, or NewInsight rejects a nil response or an empty
\* diagnosis: return nil, err
AnalyzeCallFails(t) ==
  /\ tasks[t].pc \in {"call", "r_call"}
  /\ tasks' = [tasks EXCEPT ![t] = NoTask]
  /\ analyzeErrs' = Append(analyzeErrs, [job |-> tasks[t].job, err |-> ErrAnalysisFailed])
  /\ UNCHANGED <<jobCap, retryCap, wake, shutdown, qlog, bk, fx, now,
                 maxAttempts, remote, returned, lastAnalyze, cvars, metrics,
                 ms, insights, dc, wpc, wjob, rpc, rjob, fpc, fjob, lastRetry,
                 failedExecs, spawned, calls>>

\* insightRepo.Create(insight)
AnalyzeCreate(t) ==
  /\ tasks[t].pc = "create"
  /\ insights' = InsightCreate(insights, tasks[t].job, tasks[t].resp)
  /\ returned' = [returned EXCEPT ![tasks[t].job] = @ \cup {Len(insights) + 1}]
  /\ lastAnalyze' = [job |-> tasks[t].job, id |-> Len(insights) + 1, cached |-> FALSE]
  /\ tasks' = [tasks EXCEPT ![t] = NoTask]
  /\ UNCHANGED <<jobCap, retryCap, wake, shutdown, qlog, bk, fx, now,
                 maxAttempts, remote, cvars, metrics, ms, dc, wpc, wjob, rpc,
                 rjob, fpc, fjob, lastRetry, failedExecs, spawned, calls,
                 analyzeErrs>>

\* analyzer side of the HTTP call: GetByJobID; a cached row is the response
RemoteCheck(t) ==
  /\ tasks[t].pc = "r_check"
  /\ LET id == tasks[t].job IN
       IF HasInsight(insights, id)
         THEN /\ tasks' = [tasks EXCEPT
                ![t].pc = "create", ![t].req = NoRequest,
                ![t].resp = DecodeInsightResponse(GetByJobID(insights, id))]
              /\ returned' = [returned EXCEPT ![id] = @ \cup {GetByJobID(insights, id).id}]
              /\ lastAnalyze' = [job |-> id, id |-> GetByJobID(insights, id).id,
                                 cached |-> TRUE]
         ELSE /\ tasks' = [tasks EXCEPT ![t].pc = "r_call", ![t].req = NoRequest,
                                        ![t].rprev = returned[id]]
              /\ UNCHANGED <<returned, lastAnalyze>>
  /\ UNCHANGED <<jobCap, retryCap, wake, shutdown, qlog, bk, fx, now,
                 maxAttempts, remote, cvars, metrics, ms, insights, dc, wpc,
                 wjob, rpc, rjob, fpc, fjob, lastRetry, failedExecs, spawned,
                 calls, analyzeErrs>>

\* analyzer side of the HTTP call: the model answers, the analyzer stores
\* its Insight and the handler returns it with 201
RemoteCreate(t, resp) ==
  /\ tasks[t].pc = "r_call"
  /\ tasks[t].job \in DOMAIN ms
  /\ insights' = InsightCreate(insights, tasks[t].job, resp)
  /\ returned' = [returned EXCEPT ![tasks[t].job] = @ \cup {Len(insights) + 1}]
  /\ lastAnalyze' = [job |-> tasks[t].job, id |-> Len(insights) + 1, cached |-> FALSE]
  /\ tasks' = [tasks EXCEPT ![t].pc = "create",
                            ![t].resp = DecodeInsightResponse(NewInsight(0, tasks[t].job, resp))]
  /\ UNCHANGED <<jobCap, retryCap, wake, shutdown, qlog, bk, fx, now,
                 maxAttempts, remote, cvars, metrics, ms, dc, wpc, wjob, rpc,
                 rjob, fpc, fjob, lastRetry, failedExecs, spawned, calls,
                 analyzeErrs>>

WorkerStep(w) ==
  \/ Dequeue(w)
  \/ MarkProcessing(w)
  \/ ExecuteOk(w)
  \/ ExecuteFail(w)
  \/ Complete(w)
  \/ RetryUpdate(w)
  \/ ReEnqueue(w)
  \/ DLQMove(w)
  \/ DLQUpdate(w)

RetryStep(r) ==
  \/ \E id \in JobIds : RetryRead(r, id)
  \/ RetryWrite(r)
  \/ RetryEnqueue(r)

TaskStep(t) ==
  \/ AnalyzeCached(t)
  \/ AnalyzeMiss(t)
  \/ AnalyzeGetJob(t)
  \/ \E resp \in Responses : AnalyzeCall(t, resp)
  \/ AnalyzeCallFails(t)
  \/ AnalyzeCreate(t)
  \/ RemoteCheck(t)
  \/ \E resp \in Responses : RemoteCreate(t, resp)

\* the steps of an analysis that is the only one of its job: its GetByJobID
\* finds no row
SoleAnalysisStep(t) ==
  \/ AnalyzeMiss(t)
  \/ AnalyzeGetJob(t)
  \/ \E resp \in Responses : AnalyzeCall(t, resp)
  \/ AnalyzeCallFails(t)
  \/ AnalyzeCreate(t)
  \/ RemoteCheck(t)
  \/ \E resp \in Responses : RemoteCreate(t, resp)

\* a call of Insight.ApplySuggestedFix, and a second call with the same
\* patch on the result of the first
ApplySuggestedFixCall(payload, patch) ==
  LET i == NewInsight(0, 0, [retry |-> FALSE, patch |-> patch]) IN
  /\ fx' = [called |-> TRUE, payload |-> payload, patch |-> patch,
            out |-> ApplySuggestedFix(i, payload),
            again |-> ApplySuggestedFix(i, ApplySuggestedFix(i, payload))]
  /\ UNCHANGED <<jobCap, retryCap, wake, shutdown, qlog, bk, now, maxAttempts,
                 remote, avars, cvars, metrics, ms, insights, dc, wpc, wjob,
                 rpc, rjob, fpc, fjob, tasks, lastRetry, failedExecs, spawned,
                 calls>>

\* a call of worker.CalculateBackoff
CalculateBackoffCall(attempt, baseMs) ==
  /\ bk' = [called |-> TRUE, attempt |-> attempt, baseMs |-> baseMs,
            out |-> CalculateBackoff(attempt, baseMs)]
  /\ UNCHANGED <<jobCap, retryCap, wake, shutdown, qlog, fx, now, maxAttempts,
                 remote, avars, cvars, metrics, ms, insights, dc, wpc, wjob,
                 rpc, rjob, fpc, fjob, tasks, lastRetry, failedExecs, spawned,
                 calls>>

\* the whole system: control service, workers, analyzer and their clients
Next ==
  \/ \E queue \in QueueNames, jobType \in JobTypes, ok \in BOOLEAN :
       CreateJob(queue, jobType, ok)
  \/ \E ok \in BOOLEAN : CreateJobEnqueue(ok)
  \/ \E w \in Workers : WorkerStep(w)
  \/ \E w \in Workers : Crash(w)
  \/ \E w \in Workers, o \in ExecOutcomes : ExecutePanic(w, o)
  \/ \E r \in Retriers : RetryStep(r)
  \/ \E n \in 1..(NumTasks + MaxAnalyzeCalls + MaxRetryCalls + MaxJobs) : FixRead(n)
  \/ FixWrite
  \/ \E id \in JobIds : AnalyzeJob(id)
  \/ \E t \in Tasks : TaskStep(t)
  \/ \E t \in Tasks : AnalyzeCheckFails(t)

Spec == Init /\ [][Next]_vars

\* no store or channel failure, no crash: job submission, the workers with
\* their detached analyses, and manual retries
NextCore ==
  \/ CreateJob(DefaultQueue, "email", TRUE)
  \/ CreateJobEnqueue(TRUE)
  \/ \E w \in Workers : WorkerStep(w)
  \/ \E r \in Retriers : RetryStep(r)
  \/ \E t \in Tasks : TaskStep(t)

SpecCore == Init /\ [][NextCore]_vars

\* job submission with every input and every store or channel outcome, next
\* to the workers and their detached analyses (one per job: no manual retry)
NextSubmit ==
  \/ \E queue \in QueueNames, jobType \in JobTypes, ok \in BOOLEAN :
       CreateJob(queue, jobType, ok)
  \/ \E ok \in BOOLEAN : CreateJobEnqueue(ok)
  \/ \E w \in Workers : WorkerStep(w)
  \/ \E t \in Tasks : SoleAnalysisStep(t)

SpecSubmit == Init /\ [][NextSubmit]_vars

\* the analyses: the detached ones of the workers and the requests to the
\* analyzer's endpoint, with no store or channel failure
NextAnalyze ==
  \/ CreateJob(DefaultQueue, "email", TRUE)
  \/ CreateJobEnqueue(TRUE)
  \/ \E w \in Workers : WorkerStep(w)
  \/ \E id \in JobIds : AnalyzeJob(id)
  \/ \E t \in Tasks : TaskStep(t)

SpecAnalyze == Init /\ [][NextAnalyze]_vars

\* end-to-end scenario: max_attempts = 3 and an executor that always fails
InitExhaust == Init /\ maxAttempts = 3

NextExhaust ==
  \/ CreateJob(DefaultQueue, "email", TRUE)
  \/ CreateJobEnqueue(TRUE)
  \/ \E w \in Workers : Dequeue(w)
  \/ \E w \in Workers : MarkProcessing(w)
  \/ \E w \in Workers : ExecuteFail(w)
  \/ \E w \in Workers : RetryUpdate(w)
  \/ \E w \in Workers : ReEnqueue(w)
  \/ \E w \in Workers : DLQMove(w)
  \/ \E w \in Workers : DLQUpdate(w)
  \/ \E t \in Tasks : AnalyzeMiss(t)
  \/ \E t \in Tasks : AnalyzeGetJob(t)
  \/ \E t \in Tasks, resp \in Responses : AnalyzeCall(t, resp)
  \/ \E t \in Tasks : AnalyzeCallFails(t)
  \/ \E t \in Tasks : AnalyzeCreate(t)
  \/ \E t \in Tasks : RemoteCheck(t)
  \/ \E t \in Tasks, resp \in Responses : RemoteCreate(t, resp)

SpecExhaust == InitExhaust /\ [][NextExhaust]_vars

\* the workers poll and run their jobs to the end (the ticker of Start keeps
\* calling ProcessNextJob), a started analysis goroutine keeps running, and
\* a RetryJob or CreateJob call that has begun runs to its return; nobody has
\* to call RetryJob
Fairness ==
  /\ \A w \in Workers : WF_vars(WorkerStep(w))
  /\ \A t \in Tasks : WF_vars(TaskStep(t))
  /\ \A r \in Retriers : WF_vars(RetryWrite(r) \/ RetryEnqueue(r))
  /\ WF_vars(CreateJobEnqueue(TRUE))

LiveSpec == Init /\ [][NextCore]_vars /\ Fairness

\* submissions and workers that keep running, with analyses that may answer,
\* fail or never come back: no fairness for the analysis goroutines
NextWorkers ==
  \/ CreateJob(DefaultQueue, "email", TRUE)
  \/ CreateJobEnqueue(TRUE)
  \/ \E w \in Workers : WorkerStep(w)
  \/ \E t \in Tasks : SoleAnalysisStep(t)

FairWorkers ==
  /\ \A w \in Workers : WF_vars(WorkerStep(w))
  /\ WF_vars(CreateJobEnqueue(TRUE))

LiveWorkers == Init /\ [][NextWorkers]_vars /\ FairWorkers

\* several jobs on the queue of the workers: submissions, the workers and
\* their detached analyses, with no store or channel failure
InitQueue == InitJobs(MaxQueueJobs)

NextQueue ==
  \/ CreateJob(DefaultQueue, "email", TRUE)
  \/ CreateJobEnqueue(TRUE)
  \/ \E w \in Workers : WorkerStep(w)
  \/ \E t \in Tasks : SoleAnalysisStep(t)

SpecQueue == InitQueue /\ [][NextQueue]_vars

\* the pure functions are called on their own in the state after construction
InitBackoff == Init /\ maxAttempts = 3 /\ ~remote

\* worker.CalculateBackoff called with every argument in turn
NextBackoff ==
  \E attempt \in BackoffAttempts, baseMs \in BackoffBases :
    CalculateBackoffCall(attempt, baseMs)

SpecBackoff == InitBackoff /\ [][NextBackoff]_vars

\* Insight.ApplySuggestedFix on its own, called with every payload and patch
NextFix ==
  \E payload \in Payloads, patch \in Patches : ApplySuggestedFixCall(payload, patch)

SpecFix == InitBackoff /\ [][NextFix]_vars

\* the store calls of the worker may fail: submissions, workers and their
\* detached analyses
NextFaults ==
  \/ CreateJob(DefaultQueue, "email", TRUE)
  \/ CreateJobEnqueue(TRUE)
  \/ \E w \in Workers : WorkerStep(w)
  \/ \E w \in Workers : WorkerFault(w)
  \/ \E t \in Tasks : SoleAnalysisStep(t)

SpecFaults == Init /\ [][NextFaults]_vars

\* the worker runtime is shut down at any moment
NextShutdown ==
  \/ CreateJob(DefaultQueue, "email", TRUE)
  \/ CreateJobEnqueue(TRUE)
  \/ \E w \in Workers : WorkerStep(w)
  \/ Shutdown
  \/ \E w \in Workers : Stop(w)
  \/ \E w \in Workers : Cancelled(w)
  \/ \E w \in Workers : SleepThenCancelled(w)
  \/ \E t \in Tasks : SoleAnalysisStep(t)

SpecShutdown == Init /\ [][NextShutdown]_vars

\* no store or channel failure, no crash: submissions, workers, manual
\* retries and the fixes of the insights
NextRepair ==
  \/ CreateJob(DefaultQueue, "email", TRUE)
  \/ CreateJobEnqueue(TRUE)
  \/ \E w \in Workers : WorkerStep(w)
  \/ \E r \in Retriers : RetryStep(r)
  \/ \E t \in Tasks : TaskStep(t)
  \/ \E n \in 1..NumTasks : FixRead(n)
  \/ FixWrite

SpecRepair == Init /\ [][NextRepair]_vars

\* as SpecCore, with clients that call RetryJob several times
InitRepeat == InitCaps(MaxJobs, MaxRepeatCalls)

SpecRepeat == InitRepeat /\ [][NextCore]_vars

(***************************************************************************)
(* Properties                                                              *)
(***************************************************************************)
Edges ==
  { <<StatusPending, StatusProcessing>>, <<StatusRetrying, StatusProcessing>>,
    <<StatusProcessing, StatusCompleted>>, <<StatusProcessing, StatusRetrying>>,
    <<StatusProcessing, StatusFailed>>, <<StatusFailed, StatusRetrying>> }

\* C1: every change of a job's status in MS follows an edge of the state
\* machine, and failed -> retrying is written by a manual RetryJob only
C1_StatusWalk ==
  [][\A j \in DOMAIN ms :
       ms'[j].status # ms[j].status =>
         /\ <<ms[j].status, ms'[j].status>> \in Edges
         /\ ms[j].status = StatusFailed =>
              \E r \in Retriers : rpc[r] = "update" /\ rpc'[r] = "enqueue"]_vars

\* C2: the attempts stored in MS for a job never decrease
C2_AttemptsMonotone ==
  [][\A j \in DOMAIN ms : ms'[j].attempts >= ms[j].attempts]_vars

\* C3: once completed in MS a job stays completed, no envelope of it is
\* pushed to DC and the executor is not invoked for it again
C3_CompletedTerminal ==
  [][\A j \in DOMAIN ms :
       ms[j].status = StatusCompleted =>
         /\ ms'[j].status = StatusCompleted
         /\ ~(Len(dc') > Len(dc) /\ dc'[Len(dc')].id = j)
         /\ ~\E w \in Workers : wjob[w].id = j /\ wpc[w] = "exec" /\ wpc'[w] # "exec"]_vars

\* C4: at most one Insight row exists per job id
C4_OneInsightPerJob ==
  \A j \in JobIds : Cardinality(InsightsOf(insights, j)) <= 1

\* C5: the failed executions of a job never exceed the worker's max_attempts
C5_FailedExecsBounded ==
  \A j \in JobIds : failedExecs[j] <= maxAttempts

\* a job that rests: it exists, and no envelope of it is left anywhere
Resting(j) == j \in DOMAIN ms /\ ~HasEnvelope(j)

C8_DLQMembers ==
  \A j \in GetDLQJobs(ms) :
    ms[j].status = StatusFailed /\ ms[j].attempts >= maxAttempts

Terminal(j) ==
  /\ j \in DOMAIN ms
  /\ \/ ms[j].status = StatusCompleted
     \/ ms[j].status = StatusFailed /\ ms[j].attempts >= maxAttempts

\* C9: every created job eventually is completed, or failed with
\* attempts >= max_attempts
C9_JobsFinish ==
  \A j \in JobIds : (j \in DOMAIN ms) ~> Terminal(j)

C9_Witness ==
  \E j \in JobIds : Terminal(j) /\ ~HasEnvelope(j)

\* C10: a RetryJob on a job that lost its envelope while pending or retrying
\* in MS is accepted, so that the job is pushed to DC again
C10_RetryRedelivers ==
  (lastRetry.lost /\ lastRetry.seen \in {StatusPending, StatusRetrying}) => lastRetry.ok

\* C11: a worker never begins to execute a dequeued envelope (the Update that
\* marks it processing, followed by the executor) while the job's row in MS is
\* completed, or failed with attempts >= max_attempts, or missing
C11_MSWinsOverDC ==
  [][\A w \in Workers :
       (wpc[w] = "mark" /\ wpc'[w] = "exec")
         => /\ wjob[w].id \in DOMAIN ms
            /\ ~Terminal(wjob[w].id)]_vars

EnvelopesOf(q, id) == {n \in 1..Len(q) : q[n].id = id}

\* C12: CreateJob writes the row (pending, attempts 0) to MS first, pushing
\* nothing yet; it returns the job (pending, attempts 0) and records the
\* created metric only after the push, which appends exactly one envelope of
\* the job to the queue; a call that returns an error records no metric, one
\* whose MS write failed leaves DC alone, and no envelope is ever in DC
\* without its row in MS
C12_CreateJobOrder ==
  [][/\ (cpc = "idle" /\ cpc' = "push")
          => /\ cjob'.id \notin DOMAIN ms
             /\ ms'[cjob'.id].status = StatusPending
             /\ ms'[cjob'.id].attempts = 0
             /\ dc' = dc
             /\ metrics' = metrics
             /\ lastCreate' = lastCreate
     /\ (lastCreate' # lastCreate /\ lastCreate'.ret = "ok")
          => /\ cpc = "push"
             /\ lastCreate'.id \in DOMAIN ms
             /\ cjob = NewJob(lastCreate'.id, Payload0, cjob.updatedAt)
             /\ dc' = Append(dc, NewJob(lastCreate'.id, Payload0, cjob.updatedAt))
             /\ Cardinality(EnvelopesOf(dc', lastCreate'.id)) = 1
             /\ \A w \in Workers : wjob'[w].id # lastCreate'.id
             /\ metrics'.created = metrics.created + 1
     /\ (lastCreate' # lastCreate /\ lastCreate'.ret # "ok")
          => /\ metrics' = metrics
             /\ dc' = dc
     /\ (lastCreate' # lastCreate /\ cpc = "idle")
          => /\ ms' = ms
             /\ dc' = dc
     /\ \A n \in 1..Len(dc') : dc'[n].id \in DOMAIN ms']_vars

C12_Witness ==
  /\ lastCreate.ret = "ok"
  /\ metrics.created >= 1
  /\ lastCreate.id \in DOMAIN ms
  /\ cpc = "idle"

\* the last CreateJob call returned the error of its push
PushFailed == lastCreate.ret = "error" /\ lastCreate.id # 0

\* C13: a CreateJob whose push fails after the MS write returns an error,
\* records no metric and pushes nothing, and its job stays in MS with status
\* pending and attempts 0, with no envelope
C13_PushFailureKeepsRow ==
  [][/\ (cpc = "push" /\ cpc' = "idle" /\ dc' = dc)
          => /\ lastCreate'.ret = "error"
             /\ lastCreate'.id = cjob.id
             /\ metrics' = metrics
             /\ ms' = ms
     /\ PushFailed'
          => /\ lastCreate'.id \in DOMAIN ms'
             /\ ms'[lastCreate'.id].status = StatusPending
             /\ ms'[lastCreate'.id].attempts = 0
             /\ EnvelopesOf(dc', lastCreate'.id) = {}
             /\ \A w \in Workers : wjob'[w].id # lastCreate'.id]_vars

C13_Witness ==
  /\ PushFailed
  /\ lastCreate.id \in DOMAIN ms
  /\ ms[lastCreate.id].status = StatusPending
  /\ metrics.created = 0

\* C14: a CreateJob call with an empty queue returns InvalidQueue (also when
\* the type is empty too), one with a queue and an empty type returns
\* InvalidType, and neither creates a row, pushes to DC or records a metric
C14_InvalidInputNoEffect ==
  [][\A queue \in QueueNames, jobType \in JobTypes, ok \in BOOLEAN :
       (CreateJob(queue, jobType, ok) /\ (queue = "" \/ jobType = ""))
         => /\ lastCreate'.ret = (IF queue = "" THEN "InvalidQueue" ELSE "InvalidType")
            /\ ms' = ms
            /\ dc' = dc
            /\ metrics' = metrics
            /\ cpc' = "idle"]_vars

C14_Witness ==
  /\ lastCreate.ret \in {"InvalidQueue", "InvalidType"}
  /\ lastCreate.id = 0
  /\ DOMAIN ms = {}
  /\ dc = <<>>
  /\ metrics.created = 0

C16_RetryOnlyFailed ==
  [][\A r \in Retriers :
       /\ (rpc[r] = "update" /\ rpc'[r] = "enqueue")
            => LET id == rjob[r].id IN
               /\ ms[id].status = StatusFailed
               /\ ms[id].attempts < HandlerMaxAttempts
               /\ ms'[id].status = StatusRetrying
               /\ ms'[id].attempts = ms[id].attempts
               /\ dc' = dc
       /\ (rpc[r] = "enqueue" /\ rpc'[r] = "idle")
            => /\ Len(dc') = Len(dc) + 1
               /\ dc'[Len(dc')].id = rjob[r].id
               /\ ms' = ms
       /\ \A id \in JobIds :
            (RetryRead(r, id) /\ ~(ms[id].status = StatusFailed /\ ms[id].attempts < HandlerMaxAttempts))
              => (ms' = ms /\ dc' = dc /\ rpc' = rpc)]_vars

\* C17: an AnalyzeJobFailure call whose GetByJobID finds an Insight of the job
\* returns that row (the newest one) and ends: it does not load the job, does
\* not call the analyzer and inserts nothing; this holds for the analyzer's
\* own call behind the HTTP client too
C17_CacheHit ==
  [][\A t \in Tasks :
       /\ (tasks[t].pc = "check" /\ tasks'[t] # tasks[t]
             /\ HasInsight(insights, tasks[t].job))
            => /\ tasks'[t].pc = "idle"
               /\ insights' = insights
               /\ ms' = ms
               /\ lastAnalyze' = [job |-> tasks[t].job, cached |-> TRUE,
                                  id |-> GetByJobID(insights, tasks[t].job).id]
       /\ (tasks[t].pc = "r_check" /\ tasks'[t] # tasks[t]
             /\ HasInsight(insights, tasks[t].job))
            => /\ tasks'[t].pc = "create"
               /\ insights' = insights
               /\ ms' = ms
               /\ lastAnalyze' = [job |-> tasks[t].job, cached |-> TRUE,
                                  id |-> GetByJobID(insights, tasks[t].job).id]]_vars

\* the last call returned the cached Insight of its job, the only row of it
C17_Witness ==
  /\ lastAnalyze.cached
  /\ lastAnalyze.job \in DOMAIN ms
  /\ InsightsOf(insights, lastAnalyze.job) = {lastAnalyze.id}
  /\ \A t \in Tasks : tasks[t].pc = "idle"

\* C18: an AnalyzeJobFailure call returns the Insight that every call on the
\* same job which had returned before it began has returned, and once a call
\* on the job has returned, a later call does not invoke the analyzer
C18_AnalyzeIdempotent ==
  [][\A t \in Tasks :
       LET j == tasks[t].job IN
       /\ (tasks[t].pc \in {"check", "create"} /\ tasks'[t].pc = "idle")
            => tasks[t].prev \subseteq {lastAnalyze'.id}
       /\ (tasks[t].pc = "r_check" /\ tasks'[t].pc = "create")
            => returned[j] \subseteq {lastAnalyze'.id}
       /\ (tasks[t].pc = "r_call" /\ tasks'[t].pc = "create")
            => tasks[t].rprev = {}
       /\ (tasks[t].pc = "call" /\ tasks'[t].pc = "create")
            => tasks[t].prev = {}]_vars

\* C19: the worker has started at most one analysis of a job, exactly one if
\* the job has failed an execution, and none if it has not
C19_AnalysisOncePerJob ==
  \A j \in JobIds :
    /\ spawned[j] <= 1
    /\ failedExecs[j] >= 1 => spawned[j] = 1
    /\ failedExecs[j] = 0 => spawned[j] = 0

\* C20: whether or not the analysis started at a job's first failure ever
\* returns, the worker that handled the failure gets back to polling, and the
\* job gets to completed or to failed with attempts >= max_attempts
C20_WorkerNeverWaits ==
  /\ \A w \in Workers : (wpc[w] \in {"retry_update", "dlq_move"}) ~> (wpc[w] = "idle")
  /\ \A j \in JobIds : (spawned[j] >= 1) ~> Terminal(j)

\* a failed job is through while its analysis is still waiting for the analyzer
C20_Witness ==
  \E j \in JobIds, t \in Tasks :
    /\ tasks[t].job = j
    /\ tasks[t].pc \in {"call", "r_call"}
    /\ spawned[j] = 1
    /\ Terminal(j)
    /\ ~HasEnvelope(j)
    /\ \A w \in Workers : wpc[w] = "idle"

C22_BackoffLaw ==
  (bk.called /\ bk.baseMs \in {100, 500, 1000}) =>
    /\ bk.attempt \in 0..8 => bk.out = bk.baseMs * 2^bk.attempt
    /\ bk.attempt < 0 => bk.out = bk.baseMs

\* the backoff of the largest attempt of the law has been computed
C22_Witness ==
  bk.called /\ bk.attempt = 8 /\ bk.baseMs = 1000 /\ bk.out = 256000

\* C23: attempts counts failed executions only: the worker's dequeue, its
\* marking the job processing and its completing leave the attempts stored in
\* MS as they are, a failed execution adds exactly one to the job's attempts
\* and to the stored attempts, and a job that is completed in MS has as many
\* attempts as it had failed executions (0 when its first execution succeeds)
C23_AttemptsCountFailures ==
  /\ [](\A j \in DOMAIN ms :
          ms[j].status = StatusCompleted => ms[j].attempts = failedExecs[j])
  /\ [][\A w \in Workers :
          LET j == IF wpc[w] = "idle" THEN wjob'[w].id ELSE wjob[w].id IN
            (wpc'[w] # wpc[w] /\ j \in DOMAIN ms) =>
              /\ wpc[w] \in {"idle", "mark", "complete"} =>
                   ms'[j].attempts = ms[j].attempts
              /\ wpc[w] = "exec" =>
                   /\ ms'[j].attempts = ms[j].attempts
                   /\ wjob'[w].attempts =
                        wjob[w].attempts + (IF wpc'[w] = "complete" THEN 0 ELSE 1)
              /\ wpc[w] \in {"retry_update", "dlq_update"} =>
                   ms'[j].attempts = ms[j].attempts + 1]_vars

\* C24: every failing outcome of the executor runs handleJobFailure: the
\* step that ends a failed execution leaves the worker in handleJobFailure
\* with the job marked failed once more, on its way to the retry or to the DLQ
C24_EveryFailureHandled ==
  [][\A w \in Workers :
       (wpc[w] = "exec" /\ wpc'[w] # "exec"
          /\ failedExecs'[wjob[w].id] # failedExecs[wjob[w].id]) =>
         /\ wpc'[w] \in {"retry_update", "dlq_move"}
         /\ wjob'[w].attempts = wjob[w].attempts + 1
         /\ wjob'[w].status \in {StatusRetrying, StatusFailed}]_vars

\* C25: no failure of MS or DC is swallowed: a CreateJob whose INSERT or
\* push fails returns an error, and an AnalyzeJobFailure call that met a
\* failure of MS returns an error, not an Insight
C25_NoInfraErrorSwallowed ==
  [][/\ (cpc = "push" /\ cpc' = "idle" /\ dc' = dc) => lastCreate'.ret = "error"
     /\ (cpc = "idle" /\ lastCreate' # lastCreate /\ lastCreate'.ret = "ok") =>
          Len(dc') = Len(dc) + 1
     /\ \A t \in Tasks :
          (tasks[t].msErr /\ tasks'[t].pc = "idle") =>
            /\ analyzeErrs' # analyzeErrs
            /\ returned' = returned
            /\ insights' = insights]_vars

\* C26: the updated_at stored in MS for a job never moves backwards: no step
\* replaces it by an earlier instant
C26_UpdatedAtMonotone ==
  [][\A j \in DOMAIN ms : ms'[j].updatedAt >= ms[j].updatedAt]_vars

\* C27: the payload stored in MS for a job changes only in the step in which
\* ApplyInsightFix writes the job: no step of a worker and no step of RetryJob
\* changes it, so a payload written by ApplyInsightFix is never replaced by a
\* later write of a worker
C27_PayloadImmutable ==
  [][\A j \in DOMAIN ms :
       ms'[j].payload # ms[j].payload =>
         /\ fpc = "update"
         /\ fpc' = "idle"
         /\ fjob.id = j]_vars

\* C28: ApplySuggestedFix is a shallow overlay of the patch on the payload:
\* with an empty patch the result is the input; otherwise every key of the
\* patch has the patch's value, every other key keeps the value of the
\* payload, and a second application of the patch changes nothing
C28_ShallowOverlay ==
  fx.called =>
    /\ fx.patch = EmptyPatch => fx.out = fx.payload
    /\ \A k \in PayloadKeys : fx.patch[k] # Absent => fx.out[k] = fx.patch[k]
    /\ \A k \in PayloadKeys : fx.patch[k] = Absent => fx.out[k] = fx.payload[k]
    /\ fx.again = fx.out

\* C29: DC is FIFO: the envelopes are popped in the order in which they were
\* pushed, and with a single worker the job that begins execution is the one
\* popped last, so the jobs begin execution in the order of their pushes
C29_FIFO ==
  /\ [](/\ Len(qlog.popped) <= Len(qlog.pushed)
        /\ \A n \in 1..Len(qlog.popped) : qlog.popped[n] = qlog.pushed[n])
  /\ [][Cardinality(Workers) = 1 =>
          \A w \in Workers :
            (wpc[w] = "mark" /\ wpc'[w] = "exec") =>
              /\ wjob[w].id = qlog.popped[Len(qlog.popped)].id
              /\ wjob[w].attempts = qlog.popped[Len(qlog.popped)].attempts]_vars

\* two jobs waited in the list together, were popped in the order of their
\* pushes, and the second began execution
C29_Witness ==
  /\ Len(qlog.popped) >= 2
  /\ qlog.pushed[1].id # qlog.pushed[2].id
  /\ qlog.popped[1] = qlog.pushed[1]
  /\ qlog.popped[2] = qlog.pushed[2]
  /\ \E w \in Workers : wpc[w] = "exec" /\ wjob[w].id = qlog.popped[2].id

\* C30: the worker re-pushes a retry only when the sleep of its backoff is
\* over, and at the tail: while it updates MS and sleeps no envelope of the
\* job is in the list, the re-push appends the envelope behind every envelope
\* that is waiting, and when the retried envelope is popped every envelope
\* pushed before it, those of jobs submitted during the backoff included, has
\* been popped
C30_RetryAtTail ==
  /\ [](\A w \in Workers :
          wpc[w] \in {"retry_update", "sleep"} => EnvelopesOf(dc, wjob[w].id) = {})
  /\ [][\A w \in Workers :
          /\ (wpc[w] = "sleep" /\ wpc'[w] # "sleep") =>
               /\ Len(dc') = Len(dc) + 1
               /\ SubSeq(dc', 1, Len(dc)) = dc
               /\ dc'[Len(dc')] = wjob[w]
          /\ (wpc[w] = "idle" /\ wpc'[w] = "mark"
                /\ wjob'[w].status = StatusRetrying) =>
               LET n == Len(qlog.popped') IN
                 /\ qlog.pushed[n].id = wjob'[w].id
                 /\ qlog.pushed[n].attempts = wjob'[w].attempts
                 /\ \A m \in 1..(n - 1) : qlog.popped[m] = qlog.pushed[m]]_vars

\* a job submitted after another job failed was pushed during the backoff of
\* that job, ahead of its re-push, and has been popped while the retried
\* envelope still waits
C30_Witness ==
  \E w \in Workers :
    /\ wpc[w] = "mark"
    /\ wjob[w].status = StatusPending
    /\ Len(dc) >= 1
    /\ dc[1].status = StatusRetrying
    /\ dc[1].id # wjob[w].id
    /\ wjob[w].updatedAt > dc[1].updatedAt
    /\ qlog.pushed[Len(qlog.popped)].id = wjob[w].id
    /\ qlog.pushed[Len(qlog.popped) + 1].id = dc[1].id

C32_BackoffCancellable ==
  [][\A w \in Workers :
       /\ (shutdown /\ wpc[w] = "sleep" /\ now < wake[w] /\ wpc'[w] # "sleep")
            => now' < wake[w]
       /\ (shutdown /\ wpc[w] = "idle") => wpc'[w] \in {"idle", "stopped"}]_vars

\* C33: on a failure that leaves retries available, handleJobFailure takes
\* the backoff from the attempts count k after its increment and sets
\* scheduled_for = now + base_ms * 2^k: with base_ms = 500 the first retry is
\* scheduled 1000 ms and the second 2000 ms after the failure
C33_RetrySchedule ==
  [][\A w \in Workers :
       (wpc[w] = "exec" /\ wpc'[w] = "retry_update") =>
         LET k == wjob[w].attempts + 1 IN
           /\ wjob'[w].attempts = k
           /\ wjob'[w].scheduledFor = now' + BaseBackoffMs * (2 ^ k)
           /\ (BaseBackoffMs = 500 /\ k = 1) => wjob'[w].scheduledFor - now' = 1000
           /\ (BaseBackoffMs = 500 /\ k = 2) => wjob'[w].scheduledFor - now' = 2000]_vars

\* a second failure has been scheduled for retry
C33_Witness ==
  \E w \in Workers :
    /\ wpc[w] = "retry_update"
    /\ wjob[w].attempts = 2
    /\ wjob[w].scheduledFor = now + 2000

\* C34: on a terminal failure the failed state (status failed, attempts
\* incremented, error message) is in MS before move_to_dlq is called, so
\* that it is recorded whether move_to_dlq succeeds or fails
C34_FailedStateBeforeDLQ ==
  [][\A w \in Workers :
       (wpc[w] = "dlq_move" /\ wpc'[w] # "dlq_move" /\ wjob[w].id \in DOMAIN ms) =>
         /\ ms[wjob[w].id].status = StatusFailed
         /\ ms[wjob[w].id].attempts = wjob[w].attempts
         /\ ms[wjob[w].id].error = wjob[w].error
         /\ (wpc'[w] = "idle" => ms'[wjob[w].id].attempts = wjob[w].attempts)]_vars

\* C35: a retry is MS update, then sleep, then re-push: when the worker
\* re-pushes the envelope after its backoff, MS already holds the single
\* write of the retry (status retrying, attempts incremented, error set,
\* scheduled_for set); and when that write fails, handleJobFailure returns
\* without having touched MS or DC
C35_UpdateThenRepush ==
  [][\A w \in Workers :
       /\ (wpc[w] = "sleep" /\ wpc'[w] = "idle") =>
            /\ dc' = Append(dc, wjob[w])
            /\ wjob[w].id \in DOMAIN ms
            /\ ms[wjob[w].id] = wjob[w]
            /\ wjob[w].status = StatusRetrying
            /\ wjob[w].attempts >= 1
            /\ wjob[w].error = ExecError
            /\ wjob[w].scheduledFor > 0
       /\ (wpc[w] = "retry_update" /\ wpc'[w] # "retry_update") =>
            (dc' = dc /\ (wpc'[w] = "idle" => ms' = ms))]_vars

\* the write of a retry has failed: the worker is idle again, MS still says
\* processing and no envelope of the job is anywhere
C35_Witness ==
  \E id \in DOMAIN ms :
    /\ ms[id].status = StatusProcessing
    /\ failedExecs[id] = 1
    /\ maxAttempts > 1
    /\ dc = <<>>
    /\ \A w \in Workers : wpc[w] = "idle"

\* C36: the failure is written to MS before the detached analysis reads the
\* job: the request an analysis started by the worker builds from the row
\* carries the error message of the failure, never the empty error of
\* before the failure
C36_RequestCarriesError ==
  \A t \in Tasks : tasks[t].req \in {NoRequest, ExecError}

\* C37: in every state of MS, between the store writes of a terminal failure
\* too, a job with status failed has attempts >= max_attempts
C37_FailedMeansExhausted ==
  \A id \in DOMAIN ms :
    ms[id].status = StatusFailed => ms[id].attempts >= maxAttempts

\* C38: no runnable job is orphaned: with no store or channel failure and
\* no crash, every job that MS shows pending or retrying has an envelope in
\* DC or in the hands of a worker or of a call that is about to push it,
\* after any CreateJob, RetryJob, ApplyInsightFix and worker steps
C38_NoOrphan ==
  \A id \in DOMAIN ms :
    ms[id].status \in {StatusPending, StatusRetrying} => HasEnvelope(id)

\* C39: whenever ProcessNextJob returns, with or without an error, the row
\* of the job it dequeued is not left in status processing without an
\* envelope of the job in DC
C39_NoStrandedProcessing ==
  [][\A w \in Workers :
       (wpc[w] # "idle" /\ wpc'[w] = "idle" /\ wjob[w].id \in DOMAIN ms) =>
         ~ /\ ms'[wjob[w].id].status = StatusProcessing
           /\ EnvelopesOf(dc', wjob[w].id) = {}]_vars

\* the envelopes of a job that will still be executed or pushed again: those
\* in DC and those of the workers that are about to run the job, are running
\* it, or are waiting to re-push it
LiveEnvelopes(id) ==
  Cardinality(EnvelopesOf(dc, id))
    + Cardinality({w \in Workers :
                     /\ wjob[w].id = id
                     /\ wpc[w] \in {"mark", "exec", "retry_update", "sleep"}})

\* C40: at any time at most one live envelope exists per job, in DC or held
\* by a worker, under any interleaving of CreateJob, RetryJob calls and
\* workers
C40_OneEnvelopePerJob ==
  \A id \in DOMAIN ms : LiveEnvelopes(id) <= 1
====
